---- MODULE Spec2Model ----
(***************************************************************************)
(* Stroke-geometry engine of the whiteboard (utils/geometry.ts):           *)
(* point-to-segment distance, Ramer-Douglas-Peucker simplification,        *)
(* stroke-eraser hit testing and shape recognition; and the Whiteboard     *)
(* component (components/Whiteboard.tsx) that draws, erases and commits    *)
(* strokes with them; and the host side of the collaboration (App.tsx).    *)
(*                                                                         *)
(* Numbers.  Points have integer coordinates.  A value the code obtains    *)
(* from distToSegment is kept exactly, as the fraction num/den of its      *)
(* SQUARE; two such values are compared by cross-multiplication, which is  *)
(* the comparison of the distances themselves because both are >= 0.       *)
(* A value the code obtains from distance() (Math.sqrt) is kept in fixed   *)
(* point, in units of 1/Unit, rounded to nearest as IEEE rounds.           *)
(***************************************************************************)
EXTENDS Integers, Sequences, FiniteSets

VARIABLES
    hPath,       \* isPointNearPath: the stroke (points, width) under test
    hPoint,      \* isPointNearPath: the query point of the call
    hThreshold,  \* isPointNearPath: the threshold of the call
    hResult,     \* isPointNearPath: the returned boolean
    hpc,         \* "off" | "build" | "done"
    sPoints,     \* simplifyPoints: the input point sequence
    sEps,        \* simplifyPoints: epsilon, as the fraction of its square
    sResult,     \* simplifyPoints: the returned sequence
    spc,         \* "off" | "build" | "done"
    rPoints,     \* recognizeShape: the input point sequence
    rResult,     \* recognizeShape: the returned value
    rpc,         \* "off" | "build" | "done"
    gP,          \* distToSegment: the point p of the call
    gV,          \* distToSegment: the segment end v
    gW,          \* distToSegment: the segment end w
    gResult,     \* distToSegment: the returned distance, as the fraction of its square
    gpc,         \* "off" | "ends" | "build" | "done"
    kInput,      \* simplifyPoints, call by call: the points of the outermost call
    kEps,        \* its epsilon, as the fraction of its square
    kStack,      \* the call stack: one frame per active call, outermost first
    kRet,        \* the value being returned to the caller on top of the stack
    kCalls,      \* the number of calls made so far
    kpc,         \* "off" | "build" | "call" | "return" | "done"
    wTool,       \* Whiteboard: the tool prop
    wState,      \* Whiteboard: the React state with every queued update applied
    wView,       \* Whiteboard: the React state of the last render, which the
                 \* event handlers close over
    wTimer,      \* Whiteboard: the number of pending recognition timeouts
    wLastMouse,  \* Whiteboard: lastMousePosRef.current is set
    wGestures,   \* the number of pointer-down events so far
    wSent,       \* App: the strokes passed to onPathComplete, in order
    wpc,         \* "off" | "on"
    pConn,       \* App: the conn state with every queued update applied
    pView,       \* App: conn of the last render, read by handlePathComplete
    pOpen,       \* the connection's open flag (conn.open)
    pPaths,      \* the number of strokes on the host's board
    pTimers,     \* the pending 500 ms timeouts of the connection handler
    pOutbox,     \* the messages handed to conn.send, in order
    ppc          \* "off" | "on"

vars == <<hPath, hPoint, hThreshold, hResult, hpc,
          sPoints, sEps, sResult, spc, rPoints, rResult, rpc,
          gP, gV, gW, gResult, gpc,
          kInput, kEps, kStack, kRet, kCalls, kpc,
          wTool, wState, wView, wTimer, wLastMouse, wGestures, wSent, wpc,
          pConn, pView, pOpen, pPaths, pTimers, pOutbox, ppc>>

hVars == <<hPath, hPoint, hThreshold, hResult, hpc>>
sVars == <<sPoints, sEps, sResult, spc>>
rVars == <<rPoints, rResult, rpc>>
gVars == <<gP, gV, gW, gResult, gpc>>
kVars == <<kInput, kEps, kStack, kRet, kCalls, kpc>>
wVars == <<wTool, wState, wView, wTimer, wLastMouse, wGestures, wSent, wpc>>
pVars == <<pConn, pView, pOpen, pPaths, pTimers, pOutbox, ppc>>

----------------------------------------------------------------------------
(* Bounds of the enumerated inputs *)

GridW == 2            \* x ranges over 0..GridW
GridH == 1            \* y ranges over 0..GridH
MaxStrokeLen == 3     \* points of a stroke handed to isPointNearPath
MaxSimplifyLen == 4   \* points of a sequence handed to simplifyPoints
MaxRecognizeLen == 10 \* points of a sequence handed to recognizeShape
MaxJitter == 2        \* jittered points of the square trace
SegmentR == 2         \* distToSegment arguments range over -SegmentR..SegmentR
MaxWalkLen == 5       \* points of a sequence whose simplification is followed call by call
MaxPointerX == 12     \* a stroke is drawn to the right up to x = MaxPointerX
MaxGestures == 1      \* pointer-down events on the whiteboard
MaxSent == 2          \* strokes passed to onPathComplete
MaxHostStrokes == 8   \* strokes the host draws
MaxBoard == 2         \* strokes on the board when a peer's stroke is added

Grid == [x : 0..GridW, y : 0..GridH]
Widths == {0, 2, 4}            \* DrawingPath.width values
Thresholds == {-1, 0, 1, 2}    \* threshold values (the eraser passes 10 / scale)

Pt(a, b) == [x |-> a, y |-> b]
NoPoint == [x |-> 0, y |-> 0]
\* the null returned by recognizeShape, which never returns an empty array
None == <<>>

----------------------------------------------------------------------------
(* Arithmetic helpers *)

RECURSIVE GCD(_, _)
GCD(a, b) == IF b = 0 THEN a ELSE GCD(b, a % b)

\* a fraction num/den, den > 0, in lowest terms
Frac(n, d) == LET g == GCD(n, d) IN
              IF g = 0 THEN [num |-> 0, den |-> 1] ELSE [num |-> n \div g, den |-> d \div g]

FracLess(a, b) == a.num * b.den < b.num * a.den
FracLeq(a, b) == a.num * b.den <= b.num * a.den

\* fixed-point resolution of the values returned by Math.sqrt: 1/Unit
Unit == 1000

\* the largest r in lo..hi with r*r <= n
RECURSIVE SqrtSearch(_, _, _)
SqrtSearch(n, lo, hi) ==
    IF lo >= hi THEN lo
    ELSE LET mid == (lo + hi + 1) \div 2 IN
         IF mid * mid <= n THEN SqrtSearch(n, mid, hi) ELSE SqrtSearch(n, lo, mid - 1)

\* sqrt(n) rounded to the nearest integer
RoundSqrt(n) ==
    LET r == SqrtSearch(n, 0, IF n > 46340 THEN 46340 ELSE n)
    IN  IF n - r * r > r THEN r + 1 ELSE r

\* a variant of Math.sqrt: the root is cut to a whole number
WholeFxSqrt(n, d) == Unit * SqrtSearch(n \div d, 0, n \div d)

\* Math.sqrt(n / d) in units of 1/Unit
FxSqrt(n, d) == RoundSqrt((n * Unit * Unit) \div d)

SetMin(S) == CHOOSE m \in S : \A e \in S : m <= e
SetMax(S) == CHOOSE m \in S : \A e \in S : m >= e

Xs(points) == {points[i].x : i \in 1..Len(points)}
Ys(points) == {points[i].y : i \in 1..Len(points)}

----------------------------------------------------------------------------
(* utils/geometry.ts *)

\* (p2.x - p1.x)^2 + (p2.y - p1.y)^2, the radicand of distance()
dist2(p1, p2) == (p2.x - p1.x) * (p2.x - p1.x) + (p2.y - p1.y) * (p2.y - p1.y)

\* the projection parameter is not clamped to [0, 1]: the distance to the
\* line through v and w
UnclampedDistToSegment(p, v, w) ==
    LET l2 == dist2(v, w) IN
    IF l2 = 0 THEN Frac(dist2(p, v), 1)
    ELSE LET dot == (p.x - v.x) * (w.x - v.x) + (p.y - v.y) * (w.y - v.y)
             tn  == dot
             px  == v.x * l2 + tn * (w.x - v.x)
             py  == v.y * l2 + tn * (w.y - v.y)
             ex  == p.x * l2 - px
             ey  == p.y * l2 - py
         IN  Frac(ex * ex + ey * ey, l2 * l2)

\* distToSegment(p, v, w), as the fraction of the SQUARE of the returned
\* distance.  t = tn/l2 is the projection parameter, clamped to [0, 1]; the
\* projection is v + t*(w - v), here with coordinates over the denominator l2.
distToSegment(p, v, w) ==
    LET l2 == dist2(v, w) IN
    IF l2 = 0 THEN Frac(dist2(p, v), 1)
    ELSE LET dot == (p.x - v.x) * (w.x - v.x) + (p.y - v.y) * (w.y - v.y)
             tn  == IF dot < 0 THEN 0 ELSE IF dot > l2 THEN l2 ELSE dot
             px  == v.x * l2 + tn * (w.x - v.x)
             py  == v.y * l2 + tn * (w.y - v.y)
             ex  == p.x * l2 - px
             ey  == p.y * l2 - py
         IN  Frac(ex * ex + ey * ey, l2 * l2)

\* d < threshold + path.width / 2, with d >= 0 given by the fraction d2 of
\* its square and the right-hand side by its double r2 = 2*threshold + width
WithinRadius(d2, r2) == r2 > 0 /\ 4 * d2.num < r2 * r2 * d2.den

\* the loop of isPointNearPath from index i (1-based): true at the first
\* segment closer than threshold + width/2, false when the segments run out
RECURSIVE SegmentCheck(_, _, _, _)
SegmentCheck(point, path, threshold, i) ==
    IF i > Len(path.points) - 1 THEN FALSE
    ELSE IF WithinRadius(distToSegment(point, path.points[i], path.points[i + 1]),
                         2 * threshold + path.width)
         THEN TRUE
         ELSE SegmentCheck(point, path, threshold, i + 1)

\* a single-point stroke treated as a dot that can be hit
DotHitIsPointNearPath(point, path, threshold) ==
    IF Len(path.points) = 0 THEN FALSE
    ELSE IF Len(path.points) = 1
         THEN WithinRadius(Frac(dist2(point, path.points[1]), 1), 2 * threshold + path.width)
         ELSE SegmentCheck(point, path, threshold, 1)

\* the bounding box shrunk, not expanded, by threshold
ShrunkBoxIsPointNearPath(point, path, threshold) ==
    IF Len(path.points) < 2 THEN FALSE
    ELSE LET minX == SetMin(Xs(path.points)) + threshold
             maxX == SetMax(Xs(path.points)) - threshold
             minY == SetMin(Ys(path.points)) + threshold
             maxY == SetMax(Ys(path.points)) - threshold
         IN  IF point.x < minX \/ point.x > maxX \/ point.y < minY \/ point.y > maxY
             THEN FALSE
             ELSE SegmentCheck(point, path, threshold, 1)

\* the segment test without the stroke width: d < threshold
NoWidthIsPointNearPath(point, path, threshold) ==
    IF Len(path.points) < 2 THEN FALSE
    ELSE LET minX == SetMin(Xs(path.points)) - threshold
             maxX == SetMax(Xs(path.points)) + threshold
             minY == SetMin(Ys(path.points)) - threshold
             maxY == SetMax(Ys(path.points)) + threshold
         IN  IF point.x < minX \/ point.x > maxX \/ point.y < minY \/ point.y > maxY
             THEN FALSE
             ELSE SegmentCheck(point, [path EXCEPT !.width = 0], threshold, 1)

isPointNearPath(point, path, threshold) ==
    IF Len(path.points) < 2 THEN FALSE
    ELSE LET minX == SetMin(Xs(path.points)) - threshold
             maxX == SetMax(Xs(path.points)) + threshold
             minY == SetMin(Ys(path.points)) - threshold
             maxY == SetMax(Ys(path.points)) + threshold
         IN  IF point.x < minX \/ point.x > maxX \/ point.y < minY \/ point.y > maxY
             THEN FALSE
             ELSE SegmentCheck(point, path, threshold, 1)

\* the loop of simplifyPoints over the interior points from index i (1-based):
\* index and dmax of the first point farthest from the segment [first, last].
\* index 1 (0 in the code) means that no point was farther than 0.
RECURSIVE FarthestPoint(_, _, _, _)
FarthestPoint(points, i, index, dmax) ==
    IF i >= Len(points) THEN [index |-> index, dmax |-> dmax]
    ELSE LET d == distToSegment(points[i], points[1], points[Len(points)]) IN
         IF FracLess(dmax, d)
         THEN FarthestPoint(points, i + 1, i, d)
         ELSE FarthestPoint(points, i + 1, index, dmax)

\* the loop stops one point early (i < end - 1)
RECURSIVE ShortLoopFarthestPoint(_, _, _, _)
ShortLoopFarthestPoint(points, i, index, dmax) ==
    IF i >= Len(points) - 1 THEN [index |-> index, dmax |-> dmax]
    ELSE LET d == distToSegment(points[i], points[1], points[Len(points)]) IN
         IF FracLess(dmax, d)
         THEN ShortLoopFarthestPoint(points, i + 1, i, d)
         ELSE ShortLoopFarthestPoint(points, i + 1, index, dmax)

Zero == [num |-> 0, den |-> 1]

\* splits also when dmax = epsilon (dmax >= epsilon)
RECURSIVE EagerSplitSimplifyPoints(_, _)
EagerSplitSimplifyPoints(points, epsilon) ==
    IF Len(points) < 3 THEN points
    ELSE LET far == FarthestPoint(points, 2, 1, Zero) IN
         IF FracLeq(epsilon, far.dmax) /\ far.index > 1
         THEN LET res1 == EagerSplitSimplifyPoints(SubSeq(points, 1, far.index), epsilon)
                  res2 == EagerSplitSimplifyPoints(SubSeq(points, far.index, Len(points)), epsilon)
              IN  SubSeq(res1, 1, Len(res1) - 1) \o res2
         ELSE <<points[1], points[Len(points)]>>

\* the wrong half loses its last element: [...res1, ...res2.slice(0, -1)]
RECURSIVE WrongSliceSimplifyPoints(_, _)
WrongSliceSimplifyPoints(points, epsilon) ==
    IF Len(points) < 3 THEN points
    ELSE LET far == FarthestPoint(points, 2, 1, Zero) IN
         IF FracLess(epsilon, far.dmax)
         THEN LET res1 == WrongSliceSimplifyPoints(SubSeq(points, 1, far.index), epsilon)
                  res2 == WrongSliceSimplifyPoints(SubSeq(points, far.index, Len(points)), epsilon)
              IN  res1 \o SubSeq(res2, 1, Len(res2) - 1)
         ELSE <<points[1], points[Len(points)]>>

\* the junction point is kept by both halves: [...res1, ...res2]
RECURSIVE KeepJunctionSimplifyPoints(_, _)
KeepJunctionSimplifyPoints(points, epsilon) ==
    IF Len(points) < 3 THEN points
    ELSE LET far == FarthestPoint(points, 2, 1, Zero) IN
         IF FracLess(epsilon, far.dmax)
         THEN LET res1 == KeepJunctionSimplifyPoints(SubSeq(points, 1, far.index), epsilon)
                  res2 == KeepJunctionSimplifyPoints(SubSeq(points, far.index, Len(points)), epsilon)
              IN  res1 \o res2
         ELSE <<points[1], points[Len(points)]>>

\* the farthest point is searched by the loop that stops one point early
RECURSIVE ShortLoopSimplifyPoints(_, _)
ShortLoopSimplifyPoints(points, epsilon) ==
    IF Len(points) < 3 THEN points
    ELSE LET far == ShortLoopFarthestPoint(points, 2, 1, Zero) IN
         IF FracLess(epsilon, far.dmax)
         THEN LET res1 == ShortLoopSimplifyPoints(SubSeq(points, 1, far.index), epsilon)
                  res2 == ShortLoopSimplifyPoints(SubSeq(points, far.index, Len(points)), epsilon)
              IN  SubSeq(res1, 1, Len(res1) - 1) \o res2
         ELSE <<points[1], points[Len(points)]>>

\* simplifyPoints(points, epsilon), epsilon >= 0 given as the fraction of its
\* square.  points.slice(0, index + 1) is SubSeq(points, 1, index) and
\* points.slice(index) is SubSeq(points, index, Len(points)) in 1-based indices.
RECURSIVE simplifyPoints(_, _)
simplifyPoints(points, epsilon) ==
    IF Len(points) < 3 THEN points
    ELSE LET far == FarthestPoint(points, 2, 1, Zero) IN
         IF FracLess(epsilon, far.dmax)
         THEN LET res1 == simplifyPoints(SubSeq(points, 1, far.index), epsilon)
                  res2 == simplifyPoints(SubSeq(points, far.index, Len(points)), epsilon)
              IN  SubSeq(res1, 1, Len(res1) - 1) \o res2
         ELSE <<points[1], points[Len(points)]>>


\* splits also when dmax = epsilon (dmax >= epsilon)
EagerShouldSplit(far, epsilon) == FracLeq(epsilon, far.dmax)

\* the test that makes simplifyPoints recurse: dmax > epsilon
ShouldSplit(far, epsilon) == FracLess(epsilon, far.dmax)

\* the frame of a call of simplifyPoints: its argument, how far it has come
\* ("enter": at its first line, "left": inside the call that computes res1,
\* "right": inside the call that computes res2), the split index (1-based) and
\* res1 once the first recursive call returned
Frame(points) == [points |-> points, stage |-> "enter", index |-> 0, res1 |-> <<>>]

\* distance(p1, p2), in units of 1/Unit
distance(p1, p2) == FxSqrt(dist2(p1, p2), 1)

\* points.reduce((acc, p, i) => i > 0 ? acc + distance(points[i-1], p) : 0, 0),
\* the reduction up to index i (1-based), in units of 1/Unit
RECURSIVE SumDistances(_, _)
SumDistances(points, i) ==
    IF i <= 1 THEN 0
    ELSE SumDistances(points, i - 1) + distance(points[i - 1], points[i])

\* point i of the 45-segment ellipse: x = center.x + rx*cos(2*pi*i/45),
\* y = center.y + ry*sin(2*pi*i/45).  The coordinates are kept symbolically:
\* c2 is twice the centre coordinate, r2 twice the radius (the box's extent).
EllipsePoint(minX, minY, width, height, i) ==
    [x |-> [c2 |-> 2 * minX + width, r2 |-> width, cos |-> i],
     y |-> [c2 |-> 2 * minY + height, r2 |-> height, sin |-> i]]

\* dists.reduce((a, b) => a + b, 0)
RECURSIVE SumSeq(_, _)
SumSeq(f, i) == IF i = 0 THEN 0 ELSE SumSeq(f, i - 1) + f[i]

\* the ellipse loop stops before the closing point (i < segments): 45 points
OpenEllipseClassifyRound(simplified, n, minX, minY, width, height) ==
    LET cx2 == 2 * minX + width
        cy2 == 2 * minY + height
        dists == [k \in 1..n |->
                    FxSqrt((2 * simplified[k].x - cx2) * (2 * simplified[k].x - cx2)
                           + (2 * simplified[k].y - cy2) * (2 * simplified[k].y - cy2), 4)]
        avgDist == SumSeq(dists, n) \div n
        sq == [k \in 1..n |-> (dists[k] - avgDist) * (dists[k] - avgDist)]
        variance == SumSeq(sq, n) \div n
        stdDev == RoundSqrt(variance)
    IN  IF avgDist > 0 /\ 100 * stdDev < 15 * avgDist
        THEN [i \in 1..45 |-> EllipsePoint(minX, minY, width, height, i - 1)]
        ELSE SubSeq(simplified, 1, n)

\* the polygon keeps the closing point: the whole simplified sequence
ClosingPointClassifyRound(simplified, n, minX, minY, width, height) ==
    LET cx2 == 2 * minX + width
        cy2 == 2 * minY + height
        dists == [k \in 1..n |->
                    FxSqrt((2 * simplified[k].x - cx2) * (2 * simplified[k].x - cx2)
                           + (2 * simplified[k].y - cy2) * (2 * simplified[k].y - cy2), 4)]
        avgDist == SumSeq(dists, n) \div n
        sq == [k \in 1..n |-> (dists[k] - avgDist) * (dists[k] - avgDist)]
        variance == SumSeq(sq, n) \div n
        stdDev == RoundSqrt(variance)
    IN  IF avgDist > 0 /\ 100 * stdDev < 15 * avgDist
        THEN [i \in 1..46 |-> EllipsePoint(minX, minY, width, height, i - 1)]
        ELSE simplified

\* the n >= 5 branch of recognizeShape: ellipse when the coefficient of
\* variation of the vertex-to-centre distances is < 0.15, else the n vertices.
\* center is (minX + width/2, minY + height/2); distances are taken on doubled
\* coordinates and halved under the root.
ClassifyRound(simplified, n, minX, minY, width, height) ==
    LET cx2 == 2 * minX + width
        cy2 == 2 * minY + height
        dists == [k \in 1..n |->
                    FxSqrt((2 * simplified[k].x - cx2) * (2 * simplified[k].x - cx2)
                           + (2 * simplified[k].y - cy2) * (2 * simplified[k].y - cy2), 4)]
        avgDist == SumSeq(dists, n) \div n
        sq == [k \in 1..n |-> (dists[k] - avgDist) * (dists[k] - avgDist)]
        variance == SumSeq(sq, n) \div n
        stdDev == RoundSqrt(variance)
    IN  \* cv = stdDev / avgDist < 0.15; for avgDist = 0 cv is NaN and the test fails
        IF avgDist > 0 /\ 100 * stdDev < 15 * avgDist
        THEN [i \in 1..46 |-> EllipsePoint(minX, minY, width, height, i - 1)]
        ELSE SubSeq(simplified, 1, n)

\* a quadrilateral keeps its simplified vertices instead of the box corners
QuadVerticesClassifyClosed(points) ==
    LET minX == SetMin(Xs(points))
        maxX == SetMax(Xs(points))
        minY == SetMin(Ys(points))
        maxY == SetMax(Ys(points))
        width == maxX - minX
        height == maxY - minY
        epsilon == Frac(width * width + height * height, 400)
        simplified == simplifyPoints(points, epsilon)
        n == Len(simplified) - 1
    IN  IF n = 3 THEN SubSeq(simplified, 1, 3)
        ELSE IF n = 4 THEN SubSeq(simplified, 1, 4)
        ELSE IF n >= 5 THEN ClassifyRound(simplified, n, minX, minY, width, height)
        ELSE None

\* a triangle is sliced one vertex late: simplified.slice(1, 4)
LateSliceClassifyClosed(points) ==
    LET minX == SetMin(Xs(points))
        maxX == SetMax(Xs(points))
        minY == SetMin(Ys(points))
        maxY == SetMax(Ys(points))
        width == maxX - minX
        height == maxY - minY
        epsilon == Frac(width * width + height * height, 400)
        simplified == simplifyPoints(points, epsilon)
        n == Len(simplified) - 1
    IN  IF n = 3 THEN SubSeq(simplified, 2, 4)
        ELSE IF n = 4 THEN <<Pt(minX, minY), Pt(maxX, minY), Pt(maxX, maxY), Pt(minX, maxY)>>
        ELSE IF n >= 5 THEN ClassifyRound(simplified, n, minX, minY, width, height)
        ELSE None

\* the simplification tolerance is the absolute distance 1/2 instead of
\* diagonal * 0.05
FixedEpsilonClassifyClosed(points) ==
    LET minX == SetMin(Xs(points))
        maxX == SetMax(Xs(points))
        minY == SetMin(Ys(points))
        maxY == SetMax(Ys(points))
        width == maxX - minX
        height == maxY - minY
        epsilon == Frac(1, 4)
        simplified == simplifyPoints(points, epsilon)
        n == Len(simplified) - 1
    IN  IF n = 3 THEN SubSeq(simplified, 1, 3)
        ELSE IF n = 4 THEN <<Pt(minX, minY), Pt(maxX, minY), Pt(maxX, maxY), Pt(minX, maxY)>>
        ELSE IF n >= 5 THEN ClassifyRound(simplified, n, minX, minY, width, height)
        ELSE None

\* step 2 of recognizeShape: the bounding box, the simplification with
\* epsilon = diagonal * 0.05 (epsilon^2 = (width^2 + height^2) / 400) and the
\* classification by the number n of simplified vertices
ClassifyClosed(points) ==
    LET minX == SetMin(Xs(points))
        maxX == SetMax(Xs(points))
        minY == SetMin(Ys(points))
        maxY == SetMax(Ys(points))
        width == maxX - minX
        height == maxY - minY
        epsilon == Frac(width * width + height * height, 400)
        simplified == simplifyPoints(points, epsilon)
        n == Len(simplified) - 1
    IN  IF n = 3 THEN SubSeq(simplified, 1, 3)
        ELSE IF n = 4 THEN <<Pt(minX, minY), Pt(maxX, minY), Pt(maxX, maxY), Pt(minX, maxY)>>
        ELSE IF n >= 5 THEN ClassifyRound(simplified, n, minX, minY, width, height)
        ELSE None

\* the length guard admits 9 points (points.length < 9)
NinePointsRecognizeShape(points) ==
    IF Len(points) < 9 THEN None
    ELSE LET start == points[1]
             end == points[Len(points)]
             totalLength == SumDistances(points, Len(points))
             directDistance == distance(start, end)
             isClosed == 4 * distance(start, end) < totalLength
         IN  IF ~isClosed
             THEN IF 5 * totalLength < 6 * directDistance THEN <<start, end>> ELSE None
             ELSE ClassifyClosed(points)

\* the linearity check is missing: every open stroke becomes a line
AlwaysLineRecognizeShape(points) ==
    IF Len(points) < 10 THEN None
    ELSE LET start == points[1]
             end == points[Len(points)]
             totalLength == SumDistances(points, Len(points))
             isClosed == 4 * distance(start, end) < totalLength
         IN  IF ~isClosed
             THEN <<start, end>>
             ELSE ClassifyClosed(points)

\* a variant of recognizeShape: a stroke counts as closed up to
\* distance(start, end) < totalLength * 0.9
WideClosedRecognizeShape(points) ==
    IF Len(points) < 10 THEN None
    ELSE LET start == points[1]
             end == points[Len(points)]
             totalLength == SumDistances(points, Len(points))
             directDistance == distance(start, end)
             isClosed == 10 * distance(start, end) < 9 * totalLength
         IN  IF ~isClosed
             THEN IF 5 * totalLength < 6 * directDistance THEN <<start, end>> ELSE None
             ELSE ClassifyClosed(points)

\* recognizeShape(points).  isClosed is distance(start, end) < totalLength * 0.25
\* and the linearity check totalLength < directDistance * 1.2, both on the
\* fixed-point values, multiplied out.
recognizeShape(points) ==
    IF Len(points) < 10 THEN None
    ELSE LET start == points[1]
             end == points[Len(points)]
             totalLength == SumDistances(points, Len(points))
             directDistance == distance(start, end)
             isClosed == 4 * distance(start, end) < totalLength
         IN  IF ~isClosed
             THEN IF 5 * totalLength < 6 * directDistance THEN <<start, end>> ELSE None
             ELSE ClassifyClosed(points)

----------------------------------------------------------------------------
(* Idle values of the variables a specification does not use *)

HitOff == /\ hPath = [points |-> <<>>, width |-> 0]
          /\ hPoint = NoPoint
          /\ hThreshold = 0
          /\ hResult = FALSE
          /\ hpc = "off"

SimplifyOff == /\ sPoints = <<>>
               /\ sEps = Zero
               /\ sResult = <<>>
               /\ spc = "off"

RecognizeOff == /\ rPoints = <<>>
                /\ rResult = None
                /\ rpc = "off"

SegmentOff == /\ gP = NoPoint
              /\ gV = NoPoint
              /\ gW = NoPoint
              /\ gResult = Zero
              /\ gpc = "off"

WalkOff == /\ kInput = <<>>
           /\ kEps = Zero
           /\ kStack = <<>>
           /\ kRet = <<>>
           /\ kCalls = 0
           /\ kpc = "off"

BoardOff == /\ wTool = "PEN"
            /\ wState = [paths |-> <<>>]
            /\ wView = [paths |-> <<>>]
            /\ wTimer = 0
            /\ wLastMouse = FALSE
            /\ wGestures = 0
            /\ wSent = <<>>
            /\ wpc = "off"

PeerOff == /\ pConn = "null"
           /\ pView = "null"
           /\ pOpen = FALSE
           /\ pPaths = 0
           /\ pTimers = 0
           /\ pOutbox = <<>>
           /\ ppc = "off"

----------------------------------------------------------------------------
(* SpecNear: strokes over the grid, then one call of isPointNearPath *)

NearInit == /\ \E w \in Widths : hPath = [points |-> <<>>, width |-> w]
            /\ hPoint = NoPoint
            /\ hThreshold = 0
            /\ hResult = FALSE
            /\ hpc = "build"
            /\ SimplifyOff
            /\ RecognizeOff
            /\ SegmentOff
            /\ WalkOff
            /\ BoardOff
            /\ PeerOff

\* the stroke under test grows by one point
NearAddPoint == /\ hpc = "build"
                /\ Len(hPath.points) < MaxStrokeLen
                /\ \E p \in Grid : hPath' = [hPath EXCEPT !.points = Append(@, p)]
                /\ UNCHANGED <<hPoint, hThreshold, hResult, hpc, sVars, rVars, gVars, kVars, wVars, pVars>>

\* isPointNearPath(point, path, threshold) is called and returns
NearCall == /\ hpc = "build"
            /\ \E p \in Grid, t \in Thresholds :
                  /\ hPoint' = p
                  /\ hThreshold' = t
                  /\ hResult' = isPointNearPath(p, hPath, t)
            /\ hpc' = "done"
            /\ UNCHANGED <<hPath, sVars, rVars, gVars, kVars, wVars, pVars>>

NearNext == NearAddPoint \/ NearCall

SpecNear == NearInit /\ [][NearNext]_vars

----------------------------------------------------------------------------
(* SpecSimplify: point sequences over the grid, then one call of            *)
(* simplifyPoints                                                           *)

\* the squares of the epsilon values: 0, 1/2, 1, 2
EpsSquares == {Frac(0, 1), Frac(1, 2), Frac(1, 1), Frac(2, 1)}

SimplifyInit == /\ sPoints = <<>>
                /\ sEps = Zero
                /\ sResult = <<>>
                /\ spc = "build"
                /\ HitOff
                /\ RecognizeOff
                /\ SegmentOff
                /\ WalkOff
                /\ BoardOff
                /\ PeerOff

\* the input sequence grows by one point
SimplifyAddPoint == /\ spc = "build"
                    /\ Len(sPoints) < MaxSimplifyLen
                    /\ \E p \in Grid : sPoints' = Append(sPoints, p)
                    /\ UNCHANGED <<sEps, sResult, spc, hVars, rVars, gVars, kVars, wVars, pVars>>

\* simplifyPoints(points, epsilon) is called and returns
SimplifyCall == /\ spc = "build"
                /\ \E e \in EpsSquares :
                      /\ sEps' = e
                      /\ sResult' = simplifyPoints(sPoints, e)
                /\ spc' = "done"
                /\ UNCHANGED <<sPoints, hVars, rVars, gVars, kVars, wVars, pVars>>

SimplifyNext == SimplifyAddPoint \/ SimplifyCall

SpecSimplify == SimplifyInit /\ [][SimplifyNext]_vars

----------------------------------------------------------------------------
(* SpecRecognize: strokes drawn from the origin in unit steps, then one     *)
(* call of recognizeShape                                                   *)

\* the pointer moves of a stroke: one unit right, up or left
Steps == {Pt(1, 0), Pt(0, 1), Pt(-1, 0)}

RecognizeInit == /\ rPoints = <<Pt(0, 0)>>
                 /\ rResult = None
                 /\ rpc = "build"
                 /\ HitOff
                 /\ SimplifyOff
                 /\ SegmentOff
                 /\ WalkOff
                 /\ BoardOff
                 /\ PeerOff

\* the stroke grows by one point, one step from its last point
RecognizeAddPoint ==
    /\ rpc = "build"
    /\ Len(rPoints) < MaxRecognizeLen
    /\ \E d \in Steps :
          rPoints' = Append(rPoints, Pt(rPoints[Len(rPoints)].x + d.x,
                                        rPoints[Len(rPoints)].y + d.y))
    /\ UNCHANGED <<rResult, rpc, hVars, sVars, gVars, kVars, wVars, pVars>>

\* recognizeShape(points) is called and returns
RecognizeCall == /\ rpc = "build"
                 /\ rResult' = recognizeShape(rPoints)
                 /\ rpc' = "done"
                 /\ UNCHANGED <<rPoints, hVars, sVars, gVars, kVars, wVars, pVars>>

RecognizeNext == RecognizeAddPoint \/ RecognizeCall

SpecRecognize == RecognizeInit /\ [][RecognizeNext]_vars

----------------------------------------------------------------------------
(* SpecSquare: the 20-point trace of the square (0,0) -> (100,0) ->         *)
(* (100,100) -> (0,100) -> (0,0), some of its points moved by jitter, then  *)
(* one call of recognizeShape.  Coordinates are in units of 5: (20,20)      *)
(* stands for (100,100), and a jitter of one unit for 5.                    *)

IdealSquare ==
    <<Pt(0, 0),   Pt(4, 0),   Pt(8, 0),   Pt(12, 0),  Pt(16, 0),
      Pt(20, 0),  Pt(20, 4),  Pt(20, 8),  Pt(20, 12), Pt(20, 16),
      Pt(20, 20), Pt(16, 20), Pt(12, 20), Pt(8, 20),  Pt(4, 20),
      Pt(0, 20),  Pt(0, 16),  Pt(0, 12),  Pt(0, 8),   Pt(0, 4)>>

IdealCorners == <<Pt(0, 0), Pt(20, 0), Pt(20, 20), Pt(0, 20)>>

\* the displacements of a jittered point
Jitter == {Pt(1, 0), Pt(-1, 0), Pt(0, 1), Pt(0, -1)}

\* the positions of the trace that jitter has moved
Jittered(points) == {i \in 1..Len(points) : points[i] # IdealSquare[i]}

SquareInit == /\ rPoints = IdealSquare
              /\ rResult = None
              /\ rpc = "build"
              /\ HitOff
              /\ SimplifyOff
              /\ SegmentOff
              /\ WalkOff
              /\ BoardOff
              /\ PeerOff

\* one more point of the trace is off its ideal position
SquareJitter ==
    /\ rpc = "build"
    /\ Cardinality(Jittered(rPoints)) < MaxJitter
    /\ \E i \in 1..Len(rPoints), d \in Jitter :
          /\ rPoints[i] = IdealSquare[i]
          /\ rPoints' = [rPoints EXCEPT ![i] = Pt(@.x + d.x, @.y + d.y)]
    /\ UNCHANGED <<rResult, rpc, hVars, sVars, gVars, kVars, wVars, pVars>>

SquareNext == SquareJitter \/ RecognizeCall

SpecSquare == SquareInit /\ [][SquareNext]_vars

----------------------------------------------------------------------------
(* SpecSegment: a segment and a point of the square of radius SegmentR,    *)
(* then one call of distToSegment                                           *)

SegmentGrid == [x : -SegmentR..SegmentR, y : -SegmentR..SegmentR]

SegmentInit == /\ gP = NoPoint
               /\ gV = NoPoint
               /\ gW = NoPoint
               /\ gResult = Zero
               /\ gpc = "ends"
               /\ HitOff
               /\ SimplifyOff
               /\ RecognizeOff
               /\ WalkOff
               /\ BoardOff
               /\ PeerOff

\* the segment [v, w] of the call is chosen
SegmentSetEnds == /\ gpc = "ends"
                  /\ \E v \in SegmentGrid, w \in SegmentGrid : gV' = v /\ gW' = w
                  /\ gpc' = "build"
                  /\ UNCHANGED <<gP, gResult, hVars, sVars, rVars, kVars, wVars, pVars>>

\* distToSegment(p, v, w) is called and returns
SegmentCall == /\ gpc = "build"
               /\ \E p \in SegmentGrid :
                     /\ gP' = p
                     /\ gResult' = distToSegment(p, gV, gW)
               /\ gpc' = "done"
               /\ UNCHANGED <<gV, gW, hVars, sVars, rVars, kVars, wVars, pVars>>

SegmentNext == SegmentSetEnds \/ SegmentCall

SpecSegment == SegmentInit /\ [][SegmentNext]_vars

----------------------------------------------------------------------------
(* SpecWalk: a point sequence drawn from the origin, then one call of       *)
(* simplifyPoints followed call by call on an explicit stack                *)

\* the moves between consecutive points: one unit in a direction, or none
WalkSteps == {Pt(1, 0), Pt(0, 1), Pt(-1, 0), Pt(0, -1), Pt(0, 0)}

WalkInit == /\ kInput = <<>>
            /\ kEps = Zero
            /\ kStack = <<>>
            /\ kRet = <<>>
            /\ kCalls = 0
            /\ kpc = "build"
            /\ HitOff
            /\ SimplifyOff
            /\ RecognizeOff
            /\ SegmentOff
            /\ BoardOff
            /\ PeerOff

\* the input sequence grows by one point
WalkAddPoint ==
    /\ kpc = "build"
    /\ Len(kInput) < MaxWalkLen
    /\ IF kInput = <<>>
       THEN kInput' = <<Pt(0, 0)>>
       ELSE \E d \in WalkSteps :
               kInput' = Append(kInput, Pt(kInput[Len(kInput)].x + d.x,
                                           kInput[Len(kInput)].y + d.y))
    /\ UNCHANGED <<kEps, kStack, kRet, kCalls, kpc, hVars, sVars, rVars, gVars, wVars, pVars>>

\* the outermost call simplifyPoints(points, epsilon)
WalkStart ==
    /\ kpc = "build"
    /\ \E e \in EpsSquares : kEps' = e
    /\ kStack' = <<Frame(kInput)>>
    /\ kCalls' = 1
    /\ kpc' = "call"
    /\ UNCHANGED <<kInput, kRet, hVars, sVars, rVars, gVars, wVars, pVars>>

\* the stack after the call on top returned
Popped == SubSeq(kStack, 1, Len(kStack) - 1)
AfterReturn == IF Len(kStack) = 1 THEN "done" ELSE "return"

\* the call on top returns without recursing: points when there are fewer
\* than 3, [points[0], points[end]] when dmax <= epsilon
WalkLeaf ==
    /\ kpc = "call"
    /\ LET f == kStack[Len(kStack)] IN
       IF Len(f.points) < 3
       THEN kRet' = f.points
       ELSE /\ ~ShouldSplit(FarthestPoint(f.points, 2, 1, Zero), kEps)
            /\ kRet' = <<f.points[1], f.points[Len(f.points)]>>
    /\ kStack' = Popped
    /\ kpc' = AfterReturn
    /\ UNCHANGED <<kInput, kEps, kCalls, hVars, sVars, rVars, gVars, wVars, pVars>>

\* dmax > epsilon: the call on top calls simplifyPoints(points.slice(0, index + 1))
WalkSplit ==
    /\ kpc = "call"
    /\ LET f == kStack[Len(kStack)]
           far == FarthestPoint(f.points, 2, 1, Zero)
       IN  /\ Len(f.points) >= 3
           /\ ShouldSplit(far, kEps)
           /\ kStack' = Append([kStack EXCEPT ![Len(kStack)] =
                                    [f EXCEPT !.stage = "left", !.index = far.index]],
                               Frame(SubSeq(f.points, 1, far.index)))
    /\ kCalls' = kCalls + 1
    /\ UNCHANGED <<kInput, kEps, kRet, kpc, hVars, sVars, rVars, gVars, wVars, pVars>>

\* res1 is returned: the caller calls simplifyPoints(points.slice(index))
WalkResume ==
    /\ kpc = "return"
    /\ LET f == kStack[Len(kStack)] IN
           /\ f.stage = "left"
           /\ kStack' = Append([kStack EXCEPT ![Len(kStack)] =
                                    [f EXCEPT !.stage = "right", !.res1 = kRet]],
                               Frame(SubSeq(f.points, f.index, Len(f.points))))
    /\ kCalls' = kCalls + 1
    /\ kpc' = "call"
    /\ UNCHANGED <<kInput, kEps, kRet, hVars, sVars, rVars, gVars, wVars, pVars>>

\* res2 is returned: the caller returns [...res1.slice(0, -1), ...res2]
WalkJoin ==
    /\ kpc = "return"
    /\ LET f == kStack[Len(kStack)] IN
           /\ f.stage = "right"
           /\ kRet' = SubSeq(f.res1, 1, Len(f.res1) - 1) \o kRet
    /\ kStack' = Popped
    /\ kpc' = AfterReturn
    /\ UNCHANGED <<kInput, kEps, kCalls, hVars, sVars, rVars, gVars, wVars, pVars>>

WalkNext == WalkAddPoint \/ WalkStart \/ WalkLeaf \/ WalkSplit \/ WalkResume \/ WalkJoin

SpecWalk == WalkInit /\ [][WalkNext]_vars

\* every step of a started call is eventually taken
FairSpecWalk == SpecWalk /\ WF_vars(WalkNext)

----------------------------------------------------------------------------
(* Spec: the Whiteboard component (components/Whiteboard.tsx) under the     *)
(* pointer, the recognition timer and the calls of its parent (App.tsx).    *)
(*                                                                          *)
(* React state.  wState holds paths, currentPath, cursorPos, isDrawing,     *)
(* isPanning and scale with every queued update applied; an updater         *)
(* function (setPaths(prev => ...)) works on wState.  wView holds the value *)
(* of the state the handlers read (all but cursorPos) at the last render:   *)
(* it is what the event handlers of that render close over, so a handler    *)
(* reads wView and a value it passes to a setter is computed from wView.    *)
(* cursorPos is kept as set / not set.  React renders synchronously at the  *)
(* end of a discrete event (mousedown, mouseup, touchstart, touchend, a     *)
(* click in the toolbar); after a continuous event (mousemove, mouseleave,  *)
(* wheel), a timer or a message of the peer the render is a later task.     *)
(* An event carries its pointer position, here in world coordinates        *)
(* (toWorld applied), so offset and the position kept in lastMousePosRef    *)
(* are not part of the state.                                               *)
(*                                                                          *)
(* Environment.  One pointer: a pointer-down event comes when no gesture is *)
(* in progress, and the toolbar and the wheel are used between gestures,    *)
(* ahead of a gesture still to come.                                        *)
(* A stroke is drawn from left to right, one unit per move event.           *)

Tools == {"PEN", "HIGHLIGHTER", "ERASER", "SELECT", "HAND", "LASER"}

\* the tools the toolbar offers: it has no button for SELECT
ToolbarTools == {"HAND", "PEN", "HIGHLIGHTER", "LASER", "ERASER"}

\* the width prop: App's lineWidth
LineWidth == 2

\* the values of scale: 1 and its upper clamp 10
Scales == {1, 10}

\* currentPath = null
Null == [points |-> <<>>, width |-> 0, tool |-> "NONE", opacity |-> 0, isShape |-> FALSE]

\* the part of the state that the event handlers read
Seen(state) == [paths |-> state.paths, currentPath |-> state.currentPath,
                isDrawing |-> state.isDrawing, isPanning |-> state.isPanning,
                scale |-> state.scale]

\* the stroke startInteraction creates; opacity in tenths; isShape is unset
NewPath(worldPos, tool) ==
    [points |-> <<worldPos>>, width |-> LineWidth, tool |-> tool,
     opacity |-> IF tool = "HIGHLIGHTER" THEN 5 ELSE 10, isShape |-> FALSE]

\* the strokes a peer sends as DRAW_STROKE: a line, and the single point of a
\* pen click
PeerStrokes == {[NewPath(Pt(0, 0), "PEN") EXCEPT !.points = <<Pt(0, 0), Pt(2, 0)>>],
                NewPath(Pt(0, 0), "PEN")}

\* the positions of a pointer-down event and of a move outside a stroke
Positions == {Pt(0, 0), Pt(5, 0)}

\* the positions of a move event: while a stroke is in progress the pointer
\* goes one unit to the right of the stroke's last point
MovePositions ==
    IF wState.currentPath = Null THEN Positions
    ELSE LET last == wState.currentPath.points[Len(wState.currentPath.points)]
         IN  {p \in {Pt(last.x + 1, last.y)} : p.x <= MaxPointerX}

\* paths.filter(p => !isPointNearPath(worldPos, p, 10 / scale)), on the paths
\* and the scale of the last render
ErasedPaths(worldPos) ==
    SelectSeq(wView.paths, LAMBDA p : ~isPointNearPath(worldPos, p, 10 \div wView.scale))

\* a variant of the eraser branch: a stroke that is hit loses its last point
\* and stays on the board
TrimmingAfterErase(state, worldPos) ==
    IF Len(ErasedPaths(worldPos)) # Len(wView.paths)
    THEN [state EXCEPT !.paths =
            [i \in DOMAIN wView.paths |->
                IF isPointNearPath(worldPos, wView.paths[i], 10 \div wView.scale)
                THEN [wView.paths[i] EXCEPT !.points = SubSeq(@, 1, Len(@) - 1)]
                ELSE wView.paths[i]]]
    ELSE state

\* the eraser branch: setPaths(newPaths) if a stroke was hit
AfterErase(state, worldPos) ==
    IF Len(ErasedPaths(worldPos)) # Len(wView.paths)
    THEN [state EXCEPT !.paths = ErasedPaths(worldPos)]
    ELSE state

\* a variant of clearTimeout: the pending timeout is left to run
KeptTimeout(pending) == pending

\* clearTimeout(shapeTimerRef.current): the timeout the ref names, the one set
\* last, is cancelled if it is still pending
clearTimeout(pending) == IF pending > 0 THEN pending - 1 ELSE 0

\* a variant of startShapeTimer: the new timeout is set and the old one is not
\* cancelled
UnclearedStartShapeTimer(pending) == pending + 1

\* startShapeTimer: cancel the timeout of the ref, set a new one of 600 ms
startShapeTimer(pending) == clearTimeout(pending) + 1

\* the updater of the recognition timer
Recognized(prev) ==
    IF prev = Null \/ Len(prev.points) < 5 THEN prev
    ELSE LET correctedPoints == recognizeShape(prev.points) IN
         IF correctedPoints # None
         THEN [prev EXCEPT !.points = correctedPoints, !.isShape = TRUE]
         ELSE prev

\* no gesture is in progress: every handler that ends one has run
Idle == ~wState.isDrawing /\ ~wState.isPanning /\ wState.currentPath = Null

Init == /\ wTool = "PEN"
        /\ wState = [paths |-> <<>>, currentPath |-> Null, cursorPos |-> FALSE,
                     isDrawing |-> FALSE, isPanning |-> FALSE, scale |-> 1]
        /\ wView = Seen(wState)
        /\ wTimer = 0
        /\ wLastMouse = FALSE
        /\ wGestures = 0
        /\ wSent = <<>>
        /\ wpc = "on"
        /\ HitOff
        /\ SimplifyOff
        /\ RecognizeOff
        /\ SegmentOff
        /\ WalkOff
        /\ PeerOff

\* onMouseDown / onTouchStart at worldPos
startInteraction ==
    /\ wpc = "on"
    /\ Idle
    /\ wGestures < MaxGestures
    /\ wGestures' = wGestures + 1
    /\ wLastMouse' = TRUE
    /\ \E worldPos \in Positions, isMiddleClick \in BOOLEAN :
          IF wTool = "HAND" \/ isMiddleClick
          THEN /\ wState' = [wState EXCEPT !.isPanning = TRUE]
               /\ UNCHANGED wTimer
          ELSE IF wTool = "LASER"
          THEN /\ wState' = [wState EXCEPT !.cursorPos = TRUE, !.isDrawing = TRUE]
               /\ UNCHANGED wTimer
          ELSE IF wTool = "ERASER"
          THEN /\ wState' = AfterErase([wState EXCEPT !.isDrawing = TRUE], worldPos)
               /\ UNCHANGED wTimer
          ELSE /\ wState' = [wState EXCEPT !.isDrawing = TRUE,
                                           !.currentPath = NewPath(worldPos, wTool)]
               /\ wTimer' = IF wTool \in {"PEN", "HIGHLIGHTER"}
                            THEN startShapeTimer(wTimer) ELSE wTimer
    /\ wView' = Seen(wState')
    /\ UNCHANGED <<wTool, wSent, wpc, hVars, sVars, rVars, gVars, kVars, pVars>>

\* onMouseMove / onTouchMove at worldPos
moveInteraction ==
    /\ wpc = "on"
    /\ \E worldPos \in MovePositions :
          IF wView.isPanning /\ wLastMouse
          THEN UNCHANGED <<wState, wTimer, wLastMouse>>
          ELSE IF ~wView.isDrawing \/ wTool = "LASER"
          THEN /\ wState' = IF wTool = "LASER" THEN [wState EXCEPT !.cursorPos = TRUE]
                                               ELSE wState
               /\ UNCHANGED <<wTimer, wLastMouse>>
          ELSE IF wTool = "ERASER"
          THEN /\ wState' = AfterErase(wState, worldPos)
               /\ UNCHANGED <<wTimer, wLastMouse>>
          ELSE IF wView.currentPath = Null
          THEN UNCHANGED <<wState, wTimer, wLastMouse>>
          ELSE /\ wTimer' = IF wTool \in {"PEN", "HIGHLIGHTER"}
                            THEN startShapeTimer(wTimer) ELSE wTimer
               /\ wLastMouse' = TRUE
               /\ wState' = IF wState.currentPath # Null
                            THEN [wState EXCEPT !.currentPath.points = Append(@, worldPos)]
                            ELSE wState
    /\ UNCHANGED <<wTool, wView, wGestures, wSent, wpc, hVars, sVars, rVars, gVars, kVars, pVars>>

\* the body of endInteraction; cursorGone: handleMouseLeave's setCursorPos(null)
EndUpdates(cursorGone) ==
    LET gone(state) == IF cursorGone THEN [state EXCEPT !.cursorPos = FALSE] ELSE state
        s1 == IF wView.isPanning THEN [wState EXCEPT !.isPanning = FALSE] ELSE wState
        finalPath == wView.currentPath
        complete == wView.isDrawing /\ finalPath # Null
        s2 == IF complete THEN [s1 EXCEPT !.paths = Append(@, finalPath)] ELSE s1
    IN  /\ wTimer' = clearTimeout(wTimer)
        /\ IF wTool = "LASER"
           THEN /\ wState' = gone([s1 EXCEPT !.isDrawing = FALSE])
                /\ UNCHANGED <<wSent, wLastMouse>>
           ELSE /\ complete => Len(wSent) < MaxSent
                /\ wState' = gone([s2 EXCEPT !.currentPath = Null, !.isDrawing = FALSE])
                /\ wSent' = IF complete THEN Append(wSent, finalPath) ELSE wSent
                /\ wLastMouse' = FALSE

\* onMouseUp / onTouchEnd
endInteraction ==
    /\ wpc = "on"
    /\ EndUpdates(FALSE)
    /\ wView' = Seen(wState')
    /\ UNCHANGED <<wTool, wGestures, wpc, hVars, sVars, rVars, gVars, kVars, pVars>>

\* onMouseLeave
handleMouseLeave ==
    /\ wpc = "on"
    /\ EndUpdates(TRUE)
    /\ UNCHANGED <<wTool, wView, wGestures, wpc, hVars, sVars, rVars, gVars, kVars, pVars>>

\* the callback startShapeTimer scheduled runs, 600 ms after the last call
shapeTimer ==
    /\ wpc = "on"
    /\ wTimer > 0
    /\ wTimer' = wTimer - 1
    /\ wState' = [wState EXCEPT !.currentPath = Recognized(@)]
    /\ UNCHANGED <<wTool, wView, wLastMouse, wGestures, wSent, wpc,
                   hVars, sVars, rVars, gVars, kVars, pVars>>

\* onWheel: setScale(newScale), clamped to [0.1, 10]
handleWheel ==
    /\ wpc = "on"
    /\ Idle
    /\ wGestures < MaxGestures
    /\ \E newScale \in Scales : wState' = [wState EXCEPT !.scale = newScale]
    /\ wState' # wState
    /\ UNCHANGED <<wTool, wView, wTimer, wLastMouse, wGestures, wSent, wpc,
                   hVars, sVars, rVars, gVars, kVars, pVars>>

\* React renders the component: the handlers now close over the latest state
Render ==
    /\ wpc = "on"
    /\ wView # Seen(wState)
    /\ wView' = Seen(wState)
    /\ UNCHANGED <<wTool, wState, wTimer, wLastMouse, wGestures, wSent, wpc,
                   hVars, sVars, rVars, gVars, kVars, pVars>>

\* App: setTool from the toolbar, handed down as the tool prop
setTool ==
    /\ wpc = "on"
    /\ Idle
    /\ wGestures < MaxGestures
    /\ \E t \in ToolbarTools : wTool' = t
    /\ wTool' # wTool
    /\ UNCHANGED <<wState, wView, wTimer, wLastMouse, wGestures, wSent, wpc,
                   hVars, sVars, rVars, gVars, kVars, pVars>>

\* WhiteboardHandle.undo
undo ==
    /\ wpc = "on"
    /\ wState.paths # <<>>
    /\ wState' = [wState EXCEPT !.paths = SubSeq(@, 1, Len(@) - 1)]
    /\ UNCHANGED <<wTool, wView, wTimer, wLastMouse, wGestures, wSent, wpc,
                   hVars, sVars, rVars, gVars, kVars, pVars>>

\* WhiteboardHandle.addPath, called for a peer's DRAW_STROKE
addPath ==
    /\ wpc = "on"
    /\ Len(wState.paths) < MaxBoard
    /\ \E newPath \in PeerStrokes : wState' = [wState EXCEPT !.paths = Append(@, newPath)]
    /\ UNCHANGED <<wTool, wView, wTimer, wLastMouse, wGestures, wSent, wpc,
                   hVars, sVars, rVars, gVars, kVars, pVars>>

\* WhiteboardHandle.setPaths([]), called to clear the board
setPaths ==
    /\ wpc = "on"
    /\ wState.paths # <<>>
    /\ wState' = [wState EXCEPT !.paths = <<>>]
    /\ UNCHANGED <<wTool, wView, wTimer, wLastMouse, wGestures, wSent, wpc,
                   hVars, sVars, rVars, gVars, kVars, pVars>>

Next == \/ startInteraction
        \/ moveInteraction
        \/ endInteraction
        \/ handleMouseLeave
        \/ shapeTimer
        \/ handleWheel
        \/ Render
        \/ setTool
        \/ undo
        \/ addPath
        \/ setPaths

Spec == Init /\ [][Next]_vars

----------------------------------------------------------------------------
(* SpecPeer: the host side of the collaboration (App.tsx): a remote peer    *)
(* connects, the host draws strokes, the 500 ms timeout of the connection   *)
(* handler runs.                                                            *)
(*                                                                          *)
(* The peer is created, and its 'connection' handler registered, by an      *)
(* effect with no dependencies: the handler, and the sendSyncState and      *)
(* sendData it calls, are those of the first render and read the conn of    *)
(* that render.  handlePathComplete is handed to the Whiteboard at every    *)
(* render and reads the conn of the last one.  A stroke is its number.      *)

\* conn of the first render: useState(null)
MountConn == "null"

\* sendData(msg) of a render whose conn is conn: the outbox after the call
sendData(conn, msg) ==
    IF conn # "null" /\ pOpen THEN Append(pOutbox, msg) ELSE pOutbox

\* sendSyncState() of the first render; whiteboardRef.current is set
sendSyncState == sendData(MountConn, [type |-> "SYNC_STATE", payload |-> pPaths])

PeerInit == /\ pConn = "null"
            /\ pView = "null"
            /\ pOpen = FALSE
            /\ pPaths = 0
            /\ pTimers = 0
            /\ pOutbox = <<>>
            /\ ppc = "on"
            /\ HitOff
            /\ SimplifyOff
            /\ RecognizeOff
            /\ SegmentOff
            /\ WalkOff
            /\ BoardOff

\* the host completes a stroke: onPathComplete of the Whiteboard
handlePathComplete ==
    /\ ppc = "on"
    /\ pPaths < MaxHostStrokes
    /\ pPaths' = pPaths + 1
    /\ pOutbox' = sendData(pView, [type |-> "DRAW_STROKE", payload |-> pPaths + 1])
    /\ UNCHANGED <<pConn, pView, pOpen, pTimers, ppc, hVars, sVars, rVars, gVars, kVars, wVars>>

\* newPeer.on('connection'): a remote peer connects
onConnection ==
    /\ ppc = "on"
    /\ pConn = "null"
    /\ pConn' = "connection"
    /\ pTimers' = pTimers + 1
    /\ UNCHANGED <<pView, pOpen, pPaths, pOutbox, ppc, hVars, sVars, rVars, gVars, kVars, wVars>>

\* connection.on('open'): the data channel is open
onOpen ==
    /\ ppc = "on"
    /\ pConn # "null"
    /\ ~pOpen
    /\ pOpen' = TRUE
    /\ UNCHANGED <<pConn, pView, pPaths, pTimers, pOutbox, ppc,
                   hVars, sVars, rVars, gVars, kVars, wVars>>

\* React renders App: the handlers of this render read the latest conn
renderApp ==
    /\ ppc = "on"
    /\ pView # pConn
    /\ pView' = pConn
    /\ UNCHANGED <<pConn, pOpen, pPaths, pTimers, pOutbox, ppc,
                   hVars, sVars, rVars, gVars, kVars, wVars>>

\* the timeout of the connection handler runs: sendSyncState()
syncTimer ==
    /\ ppc = "on"
    /\ pTimers > 0
    /\ pTimers' = pTimers - 1
    /\ pOutbox' = sendSyncState
    /\ UNCHANGED <<pConn, pView, pOpen, pPaths, ppc, hVars, sVars, rVars, gVars, kVars, wVars>>

PeerNext == handlePathComplete \/ onConnection \/ onOpen \/ renderApp \/ syncTimer

SpecPeer == PeerInit /\ [][PeerNext]_vars

\* a timeout that is set runs, the data channel opens, React renders
FairSpecPeer ==
    SpecPeer /\ WF_vars(syncTimer) /\ WF_vars(onOpen) /\ WF_vars(renderApp)

----------------------------------------------------------------------------
(* Claims about isPointNearPath, under SpecNear *)

NearDone == hpc = "done"
Segments(path) == 1..(Len(path.points) - 1)

\* the per-segment test alone, without the bounding-box pre-filter
UnfilteredNear(point, path, threshold) ==
    \E i \in Segments(path) :
        WithinRadius(distToSegment(point, path.points[i], path.points[i + 1]),
                     2 * threshold + path.width)

\* the query point lies in the stroke's bounding box expanded by threshold
InExpandedBox(point, path, threshold) ==
    /\ point.x >= SetMin(Xs(path.points)) - threshold
    /\ point.x <= SetMax(Xs(path.points)) + threshold
    /\ point.y >= SetMin(Ys(path.points)) - threshold
    /\ point.y <= SetMax(Ys(path.points)) + threshold

\* C1: for a stroke of at least 2 points and a width >= 0, isPointNearPath
\* returns what the unfiltered per-segment check returns.  Stated for the
\* thresholds >= 0 only, where the code already departs from it.
C1_FilterIsTransparent ==
    (NearDone /\ Len(hPath.points) >= 2 /\ hPath.width >= 0 /\ hThreshold >= 0)
        => (hResult = UnfilteredNear(hPoint, hPath, hThreshold))

\* C6: isPointNearPath is monotonic in the threshold: a call that returned
\* true returns true for every larger threshold.
C6_MonotonicInThreshold ==
    (NearDone /\ hResult = TRUE)
        => \A t \in Thresholds :
              t > hThreshold => isPointNearPath(hPoint, hPath, t)

C6_Witness ==
    /\ NearDone /\ hResult = TRUE
    /\ \E t \in Thresholds : t > hThreshold
    /\ \E t \in Thresholds : t < hThreshold /\ ~isPointNearPath(hPoint, hPath, t)

\* C7: for a stroke of at least 2 points and a query point inside the
\* bounding box expanded by threshold, the result is true exactly when some
\* consecutive segment is at distance < threshold + width/2.
C7_NearIffSomeSegmentClose ==
    (NearDone /\ Len(hPath.points) >= 2 /\ InExpandedBox(hPoint, hPath, hThreshold))
        => (hResult = UnfilteredNear(hPoint, hPath, hThreshold))

\* a hit decided by the second segment, at a distance between threshold and
\* threshold + width/2 of it
C7_Witness ==
    /\ NearDone /\ Len(hPath.points) = 3
    /\ InExpandedBox(hPoint, hPath, hThreshold)
    /\ hResult = TRUE
    /\ hPath.width > 0
    /\ ~WithinRadius(distToSegment(hPoint, hPath.points[1], hPath.points[2]),
                     2 * hThreshold + hPath.width)
    /\ ~WithinRadius(distToSegment(hPoint, hPath.points[2], hPath.points[3]),
                     2 * hThreshold)

\* C8: isPointNearPath returns false for every stroke of 0 or 1 points.
C8_FalseBelowTwoPoints ==
    (NearDone /\ Len(hPath.points) < 2) => (hResult = FALSE)

\* the query point is the stroke's single point, with a positive hit radius
C8_Witness ==
    /\ NearDone /\ Len(hPath.points) = 1
    /\ hPoint = hPath.points[1]
    /\ 2 * hThreshold + hPath.width > 0
    /\ hResult = FALSE

----------------------------------------------------------------------------
(* Claims about simplifyPoints, under SpecSimplify *)

SimplifyDone == spc = "done"

\* p lies within epsilon of the polyline through poly (of its only point,
\* when poly has one point)
WithinOfPolyline(p, poly, epsilon) ==
    \/ Len(poly) = 1 /\ FracLeq(Frac(dist2(p, poly[1]), 1), epsilon)
    \/ \E k \in 1..(Len(poly) - 1) : FracLeq(distToSegment(p, poly[k], poly[k + 1]), epsilon)

\* C2: every point of the input lies within epsilon of the polyline formed
\* by the returned points.
C2_InputWithinEpsilonOfResult ==
    SimplifyDone =>
        \A i \in 1..Len(sPoints) : WithinOfPolyline(sPoints[i], sResult, sEps)

\* a split happened, a point was dropped, and the dropped point is off the
\* returned polyline
C2_Witness ==
    /\ SimplifyDone
    /\ Len(sResult) = 3 /\ Len(sPoints) = 4
    /\ \E i \in 1..Len(sPoints) : ~WithinOfPolyline(sPoints[i], sResult, Zero)

\* the square of the perpendicular distance of p from the line through v and
\* w (v # w): cross^2 / |w - v|^2
PerpDeviation(p, v, w) ==
    LET cross == (p.x - v.x) * (w.y - v.y) - (p.y - v.y) * (w.x - v.x)
    IN  Frac(cross * cross, dist2(v, w))

\* C3, as claimed: if epsilon is at least the maximum perpendicular deviation
\* of the points from the straight line through the first and last point, the
\* result is exactly [first, last].  (Stated where that line exists.)
C3_CollapsesWithinPerpendicularDeviation ==
    (/\ SimplifyDone /\ Len(sPoints) >= 2
     /\ sPoints[1] # sPoints[Len(sPoints)]
     /\ \A i \in 1..Len(sPoints) :
           FracLeq(PerpDeviation(sPoints[i], sPoints[1], sPoints[Len(sPoints)]), sEps))
        => (sResult = <<sPoints[1], sPoints[Len(sPoints)]>>)

\* C3, amended: if epsilon is at least the maximum distance of the points
\* from the SEGMENT joining the first and last point, the result is exactly
\* [first, last].
C3_CollapsesWithinSegmentDistance ==
    (/\ SimplifyDone /\ Len(sPoints) >= 2
     /\ \A i \in 1..Len(sPoints) :
           FracLeq(distToSegment(sPoints[i], sPoints[1], sPoints[Len(sPoints)]), sEps))
        => (sResult = <<sPoints[1], sPoints[Len(sPoints)]>>)

\* interior points at a distance > 0 from the segment, the farthest exactly at
\* epsilon, and the sequence collapsed
C3_Witness ==
    /\ SimplifyDone /\ Len(sPoints) >= 4
    /\ \A i \in 1..Len(sPoints) :
          FracLeq(distToSegment(sPoints[i], sPoints[1], sPoints[Len(sPoints)]), sEps)
    /\ \E i \in 1..Len(sPoints) :
          distToSegment(sPoints[i], sPoints[1], sPoints[Len(sPoints)]) = sEps
    /\ sEps # Zero
    /\ sResult = <<sPoints[1], sPoints[Len(sPoints)]>>

\* C4: for a non-empty input the first element of the result is the first
\* input point and the last element of the result is the last input point.
C4_EndpointsPreserved ==
    (SimplifyDone /\ Len(sPoints) >= 1)
        => /\ Len(sResult) >= 1
           /\ sResult[1] = sPoints[1]
           /\ sResult[Len(sResult)] = sPoints[Len(sPoints)]

\* a sequence that was split, with distinct end points
C4_Witness ==
    /\ SimplifyDone /\ Len(sPoints) = 4 /\ Len(sResult) = 3
    /\ sPoints[1] # sPoints[4]
    /\ sResult[1] = sPoints[1] /\ sResult[3] = sPoints[4]

\* res[j..] can be read off points[i..] at strictly increasing positions
RECURSIVE IsSubsequenceFrom(_, _, _, _)
IsSubsequenceFrom(res, j, points, i) ==
    IF j > Len(res) THEN TRUE
    ELSE IF i > Len(points) THEN FALSE
    ELSE IF res[j] = points[i] THEN IsSubsequenceFrom(res, j + 1, points, i + 1)
    ELSE IsSubsequenceFrom(res, j, points, i + 1)

\* C5: the result is a subsequence of the input: input points taken at
\* strictly increasing input positions, the junction of a split taken once.
C5_ResultIsSubsequence ==
    SimplifyDone => IsSubsequenceFrom(sResult, 1, sPoints, 1)

\* a split whose junction point occurs once in the input and once in the result
C5_Witness ==
    /\ SimplifyDone /\ Len(sPoints) = 4 /\ Len(sResult) = 3
    /\ Cardinality({i \in 1..4 : sPoints[i] = sResult[2]}) = 1
    /\ Cardinality({j \in 1..3 : sResult[j] = sResult[2]}) = 1

----------------------------------------------------------------------------
(* Claims about recognizeShape, under SpecRecognize *)

RecognizeDone == rpc = "done"

\* the exact length of a step whose length is a whole number
StepLength(p, q) == CHOOSE r \in 0..dist2(p, q) : r * r = dist2(p, q)

\* the exact total length of a stroke made of such steps
RECURSIVE ExactLength(_, _)
ExactLength(points, i) ==
    IF i <= 1 THEN 0 ELSE ExactLength(points, i - 1) + StepLength(points[i - 1], points[i])

\* directDistance >= 0.25 * totalLength, in exact arithmetic
IsOpenExact(points) ==
    16 * dist2(points[1], points[Len(points)])
        >= ExactLength(points, Len(points)) * ExactLength(points, Len(points))

\* totalLength < 1.2 * directDistance, in exact arithmetic
IsStraightExact(points) ==
    25 * ExactLength(points, Len(points)) * ExactLength(points, Len(points))
        < 36 * dist2(points[1], points[Len(points)])

\* C9: recognizeShape returns none for every sequence of fewer than 10 points.
C9_NoneBelowTenPoints ==
    (RecognizeDone /\ Len(rPoints) < 10) => (rResult = None)

\* 9 collinear points
C9_Witness ==
    /\ RecognizeDone /\ Len(rPoints) = 9
    /\ \A i \in 1..9 : rPoints[i] = Pt(i - 1, 0)
    /\ rResult = None

\* C10: for a sequence of at least 10 points that is not closed, the result
\* is [first, last] when totalLength < 1.2 * directDistance and none
\* otherwise.
C10_OpenStrokeIsLineOrNone ==
    (RecognizeDone /\ Len(rPoints) >= 10 /\ IsOpenExact(rPoints))
        => (rResult = IF IsStraightExact(rPoints)
                      THEN <<rPoints[1], rPoints[Len(rPoints)]>>
                      ELSE None)

\* an open stroke that is not perfectly straight, recognized as a line
C10_Witness ==
    /\ RecognizeDone /\ Len(rPoints) >= 10
    /\ IsOpenExact(rPoints)
    /\ ExactLength(rPoints, Len(rPoints)) * ExactLength(rPoints, Len(rPoints))
          > dist2(rPoints[1], rPoints[Len(rPoints)])
    /\ rResult = <<rPoints[1], rPoints[Len(rPoints)]>>

\* the bounding box of a point sequence
BoxMinX(points) == SetMin(Xs(points))
BoxMaxX(points) == SetMax(Xs(points))
BoxMinY(points) == SetMin(Ys(points))
BoxMaxY(points) == SetMax(Ys(points))
BoxCorners(points) ==
    <<Pt(BoxMinX(points), BoxMinY(points)), Pt(BoxMaxX(points), BoxMinY(points)),
      Pt(BoxMaxX(points), BoxMaxY(points)), Pt(BoxMinX(points), BoxMaxY(points))>>

\* the simplification with epsilon = 0.05 * bounding-box diagonal
BoxSimplified(points) ==
    simplifyPoints(points,
        Frac((BoxMaxX(points) - BoxMinX(points)) * (BoxMaxX(points) - BoxMinX(points))
             + (BoxMaxY(points) - BoxMinY(points)) * (BoxMaxY(points) - BoxMinY(points)), 400))

\* the number n of simplified vertices
VertexCount(points) == Len(BoxSimplified(points)) - 1

\* a closed stroke of at least 10 points was recognized
ClosedDone == RecognizeDone /\ Len(rPoints) >= 10 /\ ~IsOpenExact(rPoints)

\* mean and standard deviation, in units of 1/Unit, of the distances of the
\* vertices v[1..n] from the point (cx2/2, cy2/2)
DistanceStatistics(v, n, cx2, cy2) ==
    LET d == [k \in 1..n |->
                FxSqrt((2 * v[k].x - cx2) * (2 * v[k].x - cx2)
                       + (2 * v[k].y - cy2) * (2 * v[k].y - cy2), 4)]
        mean == SumSeq(d, n) \div n
        dev == [k \in 1..n |-> (d[k] - mean) * (d[k] - mean)]
    IN  [mean |-> mean, stdDev |-> RoundSqrt(SumSeq(dev, n) \div n)]

\* the statistics of the simplified vertices about the bounding-box centre
VertexStatistics(points) ==
    DistanceStatistics(BoxSimplified(points), VertexCount(points),
                       BoxMinX(points) + BoxMaxX(points), BoxMinY(points) + BoxMaxY(points))

\* coefficient of variation (stdDev / mean) < 0.15
CvBelow(points) ==
    LET st == VertexStatistics(points)
    IN  st.mean > 0 /\ 100 * st.stdDev < 15 * st.mean

\* coefficient of variation >= 0.15
CvAtLeast(points) ==
    LET st == VertexStatistics(points)
    IN  st.mean > 0 /\ 100 * st.stdDev >= 15 * st.mean

\* C11: for a closed sequence of at least 10 points whose simplification has
\* exactly 5 points (n = 4), the result is the four bounding-box corners of
\* the input in the order (minX,minY), (maxX,minY), (maxX,maxY), (minX,maxY).
C11_QuadrilateralSnapsToBox ==
    (ClosedDone /\ VertexCount(rPoints) = 4) => (rResult = BoxCorners(rPoints))

\* a quadrilateral one of whose simplified vertices is no corner of the box
C11_Witness ==
    /\ ClosedDone /\ VertexCount(rPoints) = 4
    /\ rResult = BoxCorners(rPoints)
    /\ \E k \in 1..4 : \A c \in 1..4 : BoxSimplified(rPoints)[k] # BoxCorners(rPoints)[c]

\* C13: for a closed sequence of at least 10 points with n >= 5 and a
\* coefficient of variation < 0.15, the result has exactly 46 points, point i
\* (i = 0..45) being centre + (rx*cos(2*pi*i/45), ry*sin(2*pi*i/45)), centre
\* the bounding-box centre and rx, ry half the box's width and height.
C13_RoundShapeBecomesEllipse ==
    (ClosedDone /\ VertexCount(rPoints) >= 5 /\ CvBelow(rPoints))
        => /\ Len(rResult) = 46
           /\ \A i \in 0..45 :
                 /\ rResult[i + 1].x = [c2 |-> BoxMinX(rPoints) + BoxMaxX(rPoints),
                                        r2 |-> BoxMaxX(rPoints) - BoxMinX(rPoints),
                                        cos |-> i]
                 /\ rResult[i + 1].y = [c2 |-> BoxMinY(rPoints) + BoxMaxY(rPoints),
                                        r2 |-> BoxMaxY(rPoints) - BoxMinY(rPoints),
                                        sin |-> i]

\* a round shape whose box is wider than high: rx # ry
C13_Witness ==
    /\ ClosedDone /\ VertexCount(rPoints) >= 5 /\ CvBelow(rPoints)
    /\ Len(rResult) = 46
    /\ rResult[46].x.r2 # rResult[46].y.r2

\* C14: for a closed sequence of at least 10 points with n >= 5 and a
\* coefficient of variation >= 0.15, the result is the first n simplified
\* vertices, unchanged and in order.
C14_IrregularShapeKeepsVertices ==
    (ClosedDone /\ VertexCount(rPoints) >= 5 /\ CvAtLeast(rPoints))
        => (rResult = SubSeq(BoxSimplified(rPoints), 1, VertexCount(rPoints)))

\* an irregular polygon whose closing point differs from its first vertex
C14_Witness ==
    /\ ClosedDone /\ VertexCount(rPoints) >= 5 /\ CvAtLeast(rPoints)
    /\ rResult = SubSeq(BoxSimplified(rPoints), 1, VertexCount(rPoints))
    /\ rPoints[Len(rPoints)] # rPoints[1]

\* C15: for a closed sequence of at least 10 points whose simplification has
\* exactly 4 points (n = 3), the result is the first 3 simplified vertices,
\* unchanged and in order, the first of them being the first input point.
C15_TriangleKeepsVertices ==
    (ClosedDone /\ VertexCount(rPoints) = 3)
        => /\ rResult = SubSeq(BoxSimplified(rPoints), 1, 3)
           /\ rResult[1] = rPoints[1]

C15_Witness ==
    /\ ClosedDone /\ VertexCount(rPoints) = 3
    /\ Len(rResult) = 3
    /\ rResult[1] = rPoints[1]
    /\ rResult[3] # rPoints[Len(rPoints)]

\* the scale factors applied to a stroke
ScaleFactors == {2, 3}

\* a point sequence with all coordinates multiplied by k
ScalePoints(points, k) == [i \in 1..Len(points) |-> Pt(k * points[i].x, k * points[i].y)]

\* an ellipse with all coordinates multiplied by k: centre and radii scale
ScaleEllipse(points, k) ==
    [i \in 1..Len(points) |->
        [x |-> [points[i].x EXCEPT !.c2 = k * @, !.r2 = k * @],
         y |-> [points[i].y EXCEPT !.c2 = k * @, !.r2 = k * @]]]

\* a result of recognizeShape with all coordinates multiplied by k
ScaleResult(result, k) ==
    IF result = None THEN None
    ELSE IF Len(result) = 46 THEN ScaleEllipse(result, k)
    ELSE ScalePoints(result, k)

\* C16: recognizing a sequence with all coordinates multiplied by k yields
\* none exactly when the unscaled sequence yields none, and otherwise the
\* unscaled result with all coordinates multiplied by k
C16_ScaleInvariant ==
    RecognizeDone =>
        \A k \in ScaleFactors :
            LET scaled == recognizeShape(ScalePoints(rPoints, k))
            IN  /\ Len(scaled) = Len(rResult)
                /\ scaled = ScaleResult(rResult, k)

\* a closed stroke was recognized as a shape and its scaled copy as the
\* scaled shape
C16_Witness ==
    /\ RecognizeDone
    /\ Len(rResult) >= 3
    /\ \A k \in ScaleFactors :
          LET scaled == recognizeShape(ScalePoints(rPoints, k))
          IN  Len(scaled) = Len(rResult) /\ scaled = ScaleResult(rResult, k)

\* the sequence of as many points as points has, all of them its last point
Repeated(points) == [i \in 1..Len(points) |-> points[Len(points)]]

\* C26: whenever recognizeShape reaches the coefficient of variation (closed
\* stroke, n >= 5) the mean distance of the vertices from the centre is
\* > 0, so cv is no division by zero; 10 or more identical points return
\* none before that computation.
C26_MeanDistancePositive ==
    /\ (ClosedDone /\ VertexCount(rPoints) >= 5) => VertexStatistics(rPoints).mean > 0
    /\ (RecognizeDone /\ Len(rPoints) >= 10) => recognizeShape(Repeated(rPoints)) = None

\* the coefficient of variation was computed for a stroke one of whose
\* vertices is less than one unit from the centre
C26_Witness ==
    /\ ClosedDone /\ VertexCount(rPoints) >= 5
    /\ VertexStatistics(rPoints).mean > 0
    /\ \E k \in 1..VertexCount(rPoints) :
          4 * dist2(Pt(2 * BoxSimplified(rPoints)[k].x, 2 * BoxSimplified(rPoints)[k].y),
                    Pt(BoxMinX(rPoints) + BoxMaxX(rPoints), BoxMinY(rPoints) + BoxMaxY(rPoints)))
            < 16

\* distance(start, end) < totalLength * 0.25, as recognizeShape computes it
ClosedCondition(points) ==
    4 * distance(points[1], points[Len(points)]) < SumDistances(points, Len(points))

\* totalLength < directDistance * 1.2, as recognizeShape computes it
LineCondition(points) ==
    5 * SumDistances(points, Len(points)) < 6 * distance(points[1], points[Len(points)])

\* recognizeShape with the line check evaluated before the closed check
LineFirstRecognizeShape(points) ==
    IF Len(points) < 10 THEN None
    ELSE IF LineCondition(points) THEN <<points[1], points[Len(points)]>>
    ELSE IF ~ClosedCondition(points) THEN None
    ELSE ClassifyClosed(points)

\* C27: for no point sequence do the closed condition and the straight-line
\* condition both hold, so the result of recognizeShape is the one it would
\* return with the line check evaluated before the closed check.
C27_ClosedAndLineExclusive ==
    RecognizeDone =>
        /\ ~(ClosedCondition(rPoints) /\ LineCondition(rPoints))
        /\ rResult = LineFirstRecognizeShape(rPoints)

\* a stroke with a bend that passed the line check and became a line
C27_Witness ==
    /\ RecognizeDone
    /\ Len(rPoints) >= 10
    /\ LineCondition(rPoints)
    /\ ~ClosedCondition(rPoints)
    /\ rResult = <<rPoints[1], rPoints[Len(rPoints)]>>
    /\ rPoints[Len(rPoints)].y > 0

\* a closed stroke that failed the line check and became a shape
ClosedBecameShape ==
    /\ RecognizeDone
    /\ ClosedCondition(rPoints)
    /\ ~LineCondition(rPoints)
    /\ rResult # None

----------------------------------------------------------------------------
(* Claims about distToSegment, under SpecSegment *)

SegmentDone == gpc = "done"

\* numerator of the projection parameter t of p onto the line through v and
\* w; its denominator is |w - v|^2 > 0, so t < 0 iff ProjNum < 0 and t > 1
\* iff ProjNum > |w - v|^2
ProjNum(p, v, w) == (p.x - v.x) * (w.x - v.x) + (p.y - v.y) * (w.y - v.y)

MinOf(a, b) == IF a <= b THEN a ELSE b

\* C18: for v # w and a point whose projection parameter is < 0 or > 1, the
\* returned distance is the distance to the nearer endpoint: v when t < 0,
\* w when t > 1, and in both cases min(distance(p, v), distance(p, w))
C18_OutsideIsNearerEndpoint ==
    (SegmentDone /\ gV # gW) =>
        /\ ProjNum(gP, gV, gW) < 0
              => /\ gResult = Frac(dist2(gP, gV), 1)
                 /\ gResult = Frac(MinOf(dist2(gP, gV), dist2(gP, gW)), 1)
        /\ ProjNum(gP, gV, gW) > dist2(gV, gW)
              => /\ gResult = Frac(dist2(gP, gW), 1)
                 /\ gResult = Frac(MinOf(dist2(gP, gV), dist2(gP, gW)), 1)

\* a point beyond w, off the line through v and w, was measured to w
C18_Witness ==
    /\ SegmentDone /\ gV # gW
    /\ ProjNum(gP, gV, gW) > dist2(gV, gW)
    /\ gResult = Frac(dist2(gP, gW), 1)
    /\ UnclampedDistToSegment(gP, gV, gW) # gResult
    /\ dist2(gP, gW) < dist2(gP, gV)

----------------------------------------------------------------------------
(* Claims about the recursion of simplifyPoints, under SpecWalk *)

MaxOf(a, b) == IF a >= b THEN a ELSE b

\* C19: simplifyPoints terminates.  Every recursive call receives a strictly
\* shorter sub-array of at least 2 points, the split index being strictly
\* between the first and the last index; the recursion depth is bounded by the
\* input length, and so is the number of calls (at most 2*length - 3).
C19_RecursionShrinks ==
    /\ \A i \in 2..Len(kStack) :
          /\ Len(kStack[i].points) >= 2
          /\ Len(kStack[i].points) < Len(kStack[i - 1].points)
    /\ \A i \in 1..Len(kStack) :
          kStack[i].stage # "enter"
              => (1 < kStack[i].index /\ kStack[i].index < Len(kStack[i].points))
    /\ Len(kStack) <= MaxOf(1, Len(kInput))
    /\ kCalls <= MaxOf(1, 2 * Len(kInput) - 3)

\* a call that recursed inside a recursive call has returned, with the value
\* of simplifyPoints
C19_Witness ==
    /\ kpc = "done"
    /\ kCalls >= 5
    /\ Len(kRet) >= 4
    /\ kRet = simplifyPoints(kInput, kEps)

\* every call of simplifyPoints returns to its caller
WalkTerminates == (kpc = "call") ~> (kpc = "done")

\* the value returned call by call is the value of simplifyPoints
WalkReturnsSimplified == (kpc = "done") => (kRet = simplifyPoints(kInput, kEps))

----------------------------------------------------------------------------
(* Claims about the Whiteboard component, under Spec *)

\* this step passes a stroke to onPathComplete
Completes == Len(wSent') = Len(wSent) + 1

\* the stroke this step passes to onPathComplete
Completed == wSent'[Len(wSent')]

PenOrHighlighter(path) == path.tool \in {"PEN", "HIGHLIGHTER"}

\* C20: when a pen or highlighter gesture ends, the stroke appended to the
\* board is the stroke passed to onPathComplete, and it is the in-progress
\* stroke's latest state: every point appended by a pointer move and every
\* correction of a recognition run before the end event is in it.
C20_EndCommitsLatestStroke ==
    [][(Completes /\ PenOrHighlighter(Completed))
          => /\ wState'.paths = Append(wState.paths, Completed)
             /\ Completed = wState.currentPath]_vars

\* the stroke appended to the board is the stroke passed to onPathComplete
EndCommitsSentStroke ==
    [][Completes => wState'.paths = Append(wState.paths, Completed)]_vars

\* the stroke is the latest one when the component rendered after the last
\* update of the stroke
EndCommitsRenderedStroke ==
    [][(Completes /\ wView = Seen(wState)) => Completed = wState.currentPath]_vars

\* an end event found a correction of the stroke that was not rendered yet
CorrectionPendingAtEnd ==
    /\ wState.currentPath.isShape
    /\ ~wView.currentPath.isShape
    /\ wView.isDrawing

\* the recognition timer runs recognizeShape on the in-progress stroke
RecognitionRuns ==
    /\ shapeTimer
    /\ wState.currentPath # Null
    /\ Len(wState.currentPath.points) >= 5

\* C21: if a recognition run corrected the in-progress stroke and a later
\* run on the grown stroke returns none, the correction is revoked: the
\* stroke is no longer flagged as a recognized shape.
C21_LaterNoneRevokesCorrection ==
    [][(/\ RecognitionRuns
        /\ wState.currentPath.isShape
        /\ recognizeShape(wState.currentPath.points) = None)
          => ~wState'.currentPath.isShape]_vars

\* a later run that returns none leaves the stroke as it is, flag included
LaterNoneKeepsStroke ==
    [][(RecognitionRuns /\ recognizeShape(wState.currentPath.points) = None)
          => wState'.currentPath = wState.currentPath]_vars

\* the points (a, 0), (a + 1, 0), ..., (b, 0)
Run(a, b) == [i \in 1..(b - a + 1) |-> Pt(a + i - 1, 0)]

\* the strokes a pointer draws from left to right
PointerStrokes ==
    UNION {{Run(p.x, b) : b \in p.x..MaxPointerX} : p \in Positions}

\* points is what recognizeShape returns for a stroke of the pointer
IsRecognizedShape(points) ==
    \E input \in PointerStrokes : recognizeShape(input) = points

\* the strokes of the component: those on the board and the one in progress
Strokes(state) ==
    {state.paths[i] : i \in DOMAIN state.paths}
        \cup (IF state.currentPath # Null THEN {state.currentPath} ELSE {})

\* C22: in every reachable state a stroke (in progress or on the board) whose
\* shape flag is set has as its points exactly a sequence recognizeShape
\* returned, with no raw pointer point appended after it.
C22_FlaggedStrokeIsRecognizedShape ==
    \A stroke \in Strokes(wState) : stroke.isShape => IsRecognizedShape(stroke.points)

\* the flag is set by a recognition run that returned a shape, and by nothing else
FlagSetOnlyByRecognition ==
    [][(wState'.currentPath.isShape /\ ~wState.currentPath.isShape)
          => /\ RecognitionRuns
             /\ wState'.currentPath.points = recognizeShape(wState.currentPath.points)]_vars

\* a pointer move appended a raw point to a stroke a recognition run corrected
RawPointAfterCorrection ==
    /\ wState.currentPath.isShape
    /\ ~IsRecognizedShape(wState.currentPath.points)

\* this step starts a stroke: setCurrentPath of startInteraction
StrokeStarts == startInteraction /\ wState'.currentPath # Null

\* this step appends a point to the stroke: setCurrentPath of moveInteraction
StrokeGrows == moveInteraction /\ wState'.currentPath # wState.currentPath

\* C23: during a pen or highlighter gesture at most one recognition timer is
\* pending: the start of the gesture and every pointer move cancel the
\* pending timer and start a new one, so a recognition run is that of the one
\* timer started by the last move, and it is never for a stroke of another
\* tool.
C23_OneTimerRestartedByEveryMove ==
    [][/\ wTimer' <= 1
       /\ (StrokeStarts \/ StrokeGrows) => wTimer' = 1
       /\ RecognitionRuns => /\ wTimer = 1
                             /\ PenOrHighlighter(wState.currentPath)
                             /\ wTool = wState.currentPath.tool]_vars

\* a stroke of several points is in progress and its timer is pending
C23_Witness ==
    /\ wState.isDrawing
    /\ wState.currentPath # Null
    /\ Len(wState.currentPath.points) >= 3
    /\ PenOrHighlighter(wState.currentPath)
    /\ wTimer = 1

\* this step ends a gesture: pointer up, touch end, or the pointer leaves
GestureEnds == endInteraction \/ handleMouseLeave

\* C24: once a gesture has ended the pending recognition timer is cancelled;
\* no recognition runs between the end of a gesture and the start of the next,
\* and a timer callback never rewrites a stroke on the board.
C24_NoRecognitionAfterGestureEnd ==
    [][/\ GestureEnds => wTimer' = 0
       /\ shapeTimer => wState'.paths = wState.paths
       /\ (shapeTimer /\ ~wState.isDrawing) => (~RecognitionRuns /\ wState' = wState)]_vars

\* a gesture ended with its stroke on the board and no timer pending
C24_Witness ==
    /\ Idle
    /\ wTimer = 0
    /\ wSent # <<>>
    /\ Len(wSent[1].points) >= 2
    /\ wState.paths # <<>>

\* a pointer move handled with the state of the render before the pointer
\* left started a timer between gestures; its callback finds no stroke
TimerPendingBetweenGestures == Idle /\ wTimer = 1 /\ wSent # <<>>

\* new holds strokes of old, in the order they have in old
RECURSIVE KeepsOrder(_, _)
KeepsOrder(new, old) ==
    IF new = <<>> THEN TRUE
    ELSE IF old = <<>> THEN FALSE
    ELSE IF Head(new) = Head(old) THEN KeepsOrder(Tail(new), Tail(old))
    ELSE KeepsOrder(new, Tail(old))

C28_OneStrokePerGesture ==
    [][/\ (GestureEnds /\ wState.currentPath # Null) => Completes
       /\ Len(wSent') <= wGestures']_vars

\* the first end event of a gesture completes its stroke
FirstEndCompletes ==
    [][(GestureEnds /\ wState.currentPath # Null) => Completes]_vars

\* an end event that reads the state of a render made after the gesture ended
\* (pointer up, which renders at once, and then pointer leave) completes nothing
EndAfterRenderCompletesNothing ==
    [][(GestureEnds /\ Idle /\ wView = Seen(wState)) => ~Completes]_vars

\* the strokes of fewer than 2 points, in board order
ShortStrokes(paths) == SelectSeq(paths, LAMBDA p : Len(p.points) < 2)

\* this step is a pointer event handled with the eraser
EraserActs == wTool = "ERASER" /\ (startInteraction \/ moveInteraction)

\* C29: a stroke of fewer than 2 points is never removed by an eraser action,
\* whatever the eraser position and the zoom.
C29_EraserKeepsShortStrokes ==
    [][EraserActs => KeepsOrder(ShortStrokes(wState.paths), ShortStrokes(wState'.paths))]_vars

\* an eraser action that reads the latest path list keeps every short stroke
RenderedEraserKeepsShortStrokes ==
    [][(EraserActs /\ wView.paths = wState.paths)
          => ShortStrokes(wState'.paths) = ShortStrokes(wState.paths)]_vars

----------------------------------------------------------------------------
(* Claims about the collaboration, under FairSpecPeer *)

\* a SYNC_STATE message was handed to conn.send
SyncStateSent == \E i \in DOMAIN pOutbox : pOutbox[i].type = "SYNC_STATE"

\* C30: when a remote peer connects to the host, the host eventually (about
\* 500 ms later) sends that peer a SYNC_STATE message with the paths of its
\* board, so strokes drawn before the connection reach the peer.
C30_PeerGetsSyncState == (pConn = "connection") ~> SyncStateSent

\* no SYNC_STATE message is ever sent
NoSyncStateSent == ~SyncStateSent

\* a stroke drawn once the connection is open and rendered is sent
StrokeSentWhenConnected ==
    [][(handlePathComplete /\ pView # "null" /\ pOpen)
          => pOutbox' = Append(pOutbox, [type |-> "DRAW_STROKE", payload |-> pPaths'])]_vars

\* the timeout has run with the connection open and strokes on the board
TimerRanWhileOpen == pConn # "null" /\ pOpen /\ pTimers = 0 /\ pPaths > 0

----------------------------------------------------------------------------
(* Claims about the square scenario, under SpecSquare *)

\* C12, as claimed: a jittered 20-point trace of the square that simplifies to
\* n = 4 is recognized as exactly [(0,0),(100,0),(100,100),(0,100)],
\* whatever the jitter.
C12_SquareCornersWhateverJitter ==
    (RecognizeDone /\ VertexCount(rPoints) = 4) => (rResult = IdealCorners)

\* C12, amended: it is recognized as exactly those corners when the jitter
\* leaves the bounding box of the trace at [0,100] x [0,100].
C12_SquareCornersWhenBoxKept ==
    (RecognizeDone /\ VertexCount(rPoints) = 4 /\ BoxCorners(rPoints) = IdealCorners)
        => (rResult = IdealCorners)

\* the first point (a simplified vertex) jittered along its side, box kept
C12_Witness ==
    /\ RecognizeDone /\ VertexCount(rPoints) = 4
    /\ BoxCorners(rPoints) = IdealCorners
    /\ rPoints[1] # IdealSquare[1]
    /\ rResult = IdealCorners

====
